---- MODULE Spec2Model ----
(***************************************************************************)
(* The ghost-text completion pipeline of the editor: the completion engine *)
(* (rate limiter, result cache, provider call) of ai_completion_engine.py  *)
(* and the controller (triggering, background request, overlay, accept and *)
(* dismiss) of code_editor.py.                                             *)
(*                                                                         *)
(* A string is a sequence of one-character strings.  A Tk text index       *)
(* "line.col" is the pair <<line, col>>; an offset counts characters from  *)
(* the start of the text.  Times are in milliseconds.                      *)
(***************************************************************************)
EXTENDS Integers, Sequences, FiniteSets, TLC

NL == "\n"
SP == " "
TAB == "\t"
\* Python None, where a string is expected
None == <<"<None>">>
NoPos == <<0, 0>>

Min(a, b) == IF a <= b THEN a ELSE b
Max(a, b) == IF a >= b THEN a ELSE b

(***************************************************************************)
(* Bounds of the model.                                                    *)
(***************************************************************************)
\* The engine's cache holds at most this many entries after an insertion.
\* The source writes the literal 50 (ai_completion_engine.py:194); the model
\* scales it so that a full cache and eviction are reached.
CacheCapacity == 2
\* User events (keys, clicks, menu commands, manual triggers) in a behaviour.
MaxEvents == 2
\* Milliseconds of model time after start-up.
MaxElapsed == 1000

(***************************************************************************)
(* Program constants.                                                      *)
(***************************************************************************)
DelayMs == 500
UiDebounceMs == 500
ScheduleDelayMs == 300
KeyBeforeChars == 100
KeyAfterChars == 50
ContextLinesBefore == 10
ContextLinesAfter == 5

\* time.time() at start-up: any value far above the debounce intervals.
StartTime == 2 * DelayMs
TickMs == {250}
Threads == {1, 2}

(***************************************************************************)
(* Python string operations.                                               *)
(***************************************************************************)
IsSpace(c) == c \in {SP, NL, TAB}

\* U+0130, LATIN CAPITAL LETTER I WITH DOT ABOVE, and U+0307, COMBINING DOT
\* ABOVE: str.lower() turns the first into "i" followed by the second
CapIDot == "<U+0130>"
CombDot == "<U+0307>"

\* c.lower() for one character: a string of one or two characters
Lower(c) ==
  IF c = "A" THEN <<"a">>
  ELSE IF c = "B" THEN <<"b">>
  ELSE IF c = CapIDot THEN <<"i", CombDot>>
  ELSE <<c>>

\* s.lower()
RECURSIVE LowerStr(_)
LowerStr(s) == IF s = <<>> THEN <<>> ELSE Lower(Head(s)) \o LowerStr(Tail(s))

\* s.strip()
Strip(s) ==
  LET keep == {i \in 1..Len(s) : ~IsSpace(s[i])}
  IN IF keep = {} THEN <<>>
     ELSE SubSeq(s, CHOOSE i \in keep : \A j \in keep : i <= j,
                    CHOOSE i \in keep : \A j \in keep : i >= j)

\* s[-n:]
LastChars(s, n) == SubSeq(s, Max(1, Len(s) - n + 1), Len(s))

\* s[:n]
FirstChars(s, n) == SubSeq(s, 1, Min(n, Len(s)))

\* s[n:]
DropChars(s, n) == SubSeq(s, n + 1, Len(s))

\* s.startswith(p)
StartsWith(s, p) == Len(p) <= Len(s) /\ SubSeq(s, 1, Len(p)) = p

\* s.find(p): the first 0-based position of p in s, or -1
Find(s, p) ==
  LET at == {i \in 0..(Len(s) - Len(p)) : SubSeq(s, i + 1, i + Len(p)) = p}
  IN IF at = {} THEN -1 ELSE CHOOSE i \in at : \A j \in at : i <= j

\* s.replace(c, '') for a one-character c
RemoveChar(s, c) == SelectSeq(s, LAMBDA x : x # c)

\* s.split(): the whitespace-delimited tokens of s
RECURSIVE SplitFrom(_, _, _)
SplitFrom(s, i, word) ==
  IF i > Len(s) THEN (IF word = <<>> THEN <<>> ELSE <<word>>)
  ELSE IF IsSpace(s[i])
       THEN (IF word = <<>> THEN <<>> ELSE <<word>>) \o SplitFrom(s, i + 1, <<>>)
       ELSE SplitFrom(s, i + 1, Append(word, s[i]))

Split(s) == SplitFrom(s, 1, <<>>)

\* sep.join(parts)
RECURSIVE Join(_, _)
Join(parts, sep) ==
  IF parts = <<>> THEN <<>>
  ELSE IF Len(parts) = 1 THEN parts[1]
  ELSE parts[1] \o sep \o Join(Tail(parts), sep)

\* Python truthiness of an Optional[str]
Truthy(s) == s # None /\ s # <<>>

(***************************************************************************)
(* The Tk text widget.  The document is a sequence of cells [c, g]: the    *)
(* character and whether it carries the "ghost_text" tag.  The widget      *)
(* keeps one final newline after the document, which is never deleted.     *)
(***************************************************************************)
Chars(d) == [i \in 1..Len(d) |-> d[i].c]

Cells(text, tagged) == [i \in 1..Len(text) |-> [c |-> text[i], g |-> tagged]]

NLIdx(s) == {i \in 1..Len(s) : s[i] = NL}

NumLines(s) == 1 + Cardinality(NLIdx(s))

NthNL(s, n) == CHOOSE i \in NLIdx(s) : Cardinality({j \in NLIdx(s) : j <= i}) = n

\* offset of "l.0"
LineStart(s, l) == IF l = 1 THEN 0 ELSE NthNL(s, l - 1)

\* offset of "l.end"
LineEnd(s, l) == IF l = NumLines(s) THEN Len(s) ELSE NthNL(s, l) - 1

\* The offset a "line.col" index denotes: the column is clamped to the line's
\* end, and a line past the last one denotes "end" (after the final newline).
OffsetOf(s, pos) ==
  IF pos[1] > NumLines(s) THEN Len(s) + 1
  ELSE Min(LineStart(s, pos[1]) + pos[2], LineEnd(s, pos[1]))

\* text.index(mark): the "line.col" of an offset
IndexOf(s, off) ==
  LET l == 1 + Cardinality({i \in NLIdx(s) : i <= off})
  IN <<l, off - LineStart(s, l)>>

\* text.get("l.0", "l.end")
LineText(s, l) == SubSeq(s, LineStart(s, l) + 1, LineEnd(s, l))

\* text.get(i1, i2) for offsets, over the document and its final newline
TkGet(d, o1, o2) == SubSeq(Chars(d) \o <<NL>>, o1 + 1, Min(o2, Len(d) + 1))

\* "ghost_text" in text.tag_names(index)
HasGhostTag(d, o) == o < Len(d) /\ d[o + 1].g

\* The editor's widget and suggestion state as one value
\*   doc, insert: the document and the offset of the INSERT mark
\*   cc, gs: current_completion and ghost_text_start_pos
EdState(d, ins, cc, gs) == [doc |-> d, insert |-> ins, cc |-> cc, gs |-> gs]

\* text.delete(i1, i2): marks inside the range collapse to its start
TkDelete(e, o1, o2) ==
  LET hi == Min(o2, Len(e.doc))
  IN IF o1 >= hi THEN e
     ELSE [e EXCEPT !.doc = SubSeq(e.doc, 1, o1) \o SubSeq(e.doc, hi + 1, Len(e.doc)),
                    !.insert = IF e.insert >= hi THEN e.insert - (hi - o1)
                               ELSE IF e.insert > o1 THEN o1 ELSE e.insert]

\* text.insert(index, text, tags): the INSERT mark has right gravity
TkInsertCells(e, o, cells) ==
  LET at == Min(o, Len(e.doc))
  IN [e EXCEPT !.doc = SubSeq(e.doc, 1, at) \o cells \o SubSeq(e.doc, at + 1, Len(e.doc)),
               !.insert = IF e.insert >= at THEN e.insert + Len(cells) ELSE e.insert]

\* text.insert(index, text) without tags: the new text takes the tags that
\* the characters on both sides of the insertion point carry
TkInsertTyped(e, o, text) ==
  LET at == Min(o, Len(e.doc))
      both == at >= 1 /\ at < Len(e.doc) /\ e.doc[at].g /\ e.doc[at + 1].g
  IN TkInsertCells(e, o, Cells(text, both))

\* text.mark_set(INSERT, index)
TkMarkSet(e, o) == [e EXCEPT !.insert = Min(o, Len(e.doc))]

\* text.tag_remove("ghost_text", i1, i2)
TkTagRemove(e, o1, o2) ==
  [e EXCEPT !.doc = [i \in 1..Len(e.doc) |->
                       IF i > o1 /\ i <= o2 THEN [e.doc[i] EXCEPT !.g = FALSE]
                       ELSE e.doc[i]]]

(***************************************************************************)
(* AICompletionEngine: pure parts.                                         *)
(***************************************************************************)
\* _create_cache_key without the truncation of the two contexts
CreateCacheKeyUntruncated(context_before, context_after, cursor_line) ==
  RemoveChar(RemoveChar(context_before \o cursor_line \o context_after, SP), NL)

\* _create_cache_key
CreateCacheKey(context_before, context_after, cursor_line) ==
  LET combined == LastChars(context_before, KeyBeforeChars) \o cursor_line
                  \o FirstChars(context_after, KeyAfterChars)
  IN RemoveChar(RemoveChar(combined, SP), NL)

\* _build_completion_prompt: the fixed template around the three fields
BuildCompletionPrompt(context_before, cursor_line, context_after) ==
  <<"Context before:">> \o context_before
  \o <<"Current line (cursor at end): ">> \o cursor_line
  \o <<"Context after:">> \o context_after \o <<"Completion:">>

\* _completion_cache is a dict, which keeps insertion order: a sequence of
\* entries [k, v] with distinct keys, oldest inserted first.
CacheHas(c, key) == \E i \in 1..Len(c) : c[i].k = key

CacheGet(c, key) == c[CHOOSE i \in 1..Len(c) : c[i].k = key].v

\* c[key] = value: an existing key keeps its place
CacheSet(c, key, value) ==
  IF CacheHas(c, key)
  THEN [i \in 1..Len(c) |-> IF c[i].k = key THEN [k |-> key, v |-> value] ELSE c[i]]
  ELSE Append(c, [k |-> key, v |-> value])

\* del c[key], for a key that is present
CacheDel(c, key) == SelectSeq(c, LAMBDA e : e.k # key)

\* next(iter(c))
CacheOldest(c) == c[1].k

NoCompletionReceived == <<"No completion received">>
ErrorResponse == <<"ERROR: ">>

(***************************************************************************)
(* AICompletionEngine.__init__, as CodeEditor.__init__ calls it.           *)
(***************************************************************************)
\* What the constructor may find: a usable configuration, no file, a file
\* that is not JSON, a file that cannot be read, no "openai_api_key" entry
\* (or an empty one), or the placeholder of the sample configuration
Configs ==
  {"ok", "file_not_found", "invalid_json", "unreadable", "no_api_key",
   "placeholder_api_key"}

\* _load_config raises: its own Exception for a missing file or invalid
\* JSON, the OSError of open() otherwise
LoadConfigRaises(cfg) == cfg \in {"file_not_found", "invalid_json", "unreadable"}

\* _setup_openai_client raises
SetupOpenaiClientRaises(cfg) == cfg \in {"no_api_key", "placeholder_api_key"}

\* The constructor with a _setup_openai_client that takes any api key
EngineConstructedAnyKey(cfg) == ~LoadConfigRaises(cfg)

\* AICompletionEngine() returns an engine
EngineConstructed(cfg) == ~LoadConfigRaises(cfg) /\ ~SetupOpenaiClientRaises(cfg)

\* str(e) of the exception the constructor raises
ConfigError(cfg) ==
  CASE cfg = "file_not_found" ->
         "Configuration file config.json not found. Please create it with your OpenAI API key."
    [] cfg = "invalid_json" -> "Invalid JSON in configuration file config.json"
    [] cfg = "unreadable" -> "[Errno 13] Permission denied: 'config.json'"
    [] OTHER -> "Please set your OpenAI API key in config.json"

NoDialog == ""

(***************************************************************************)
(* CodeEditor: the handlers' effect on the widget and suggestion state.    *)
(***************************************************************************)
\* clear_ghost_text without the verification of lines 278-282
ClearGhostTextUnverified(e) ==
  IF e.gs # NoPos /\ e.cc # <<>>
  THEN LET start == OffsetOf(Chars(e.doc), e.gs)
       IN [TkDelete(e, start, start + Len(e.cc)) EXCEPT !.gs = NoPos, !.cc = <<>>]
  ELSE e

\* clear_ghost_text that deletes the span unverified and keeps its state
ClearGhostTextKeepsState(e) ==
  IF e.gs # NoPos /\ e.cc # <<>>
  THEN LET start == OffsetOf(Chars(e.doc), e.gs)
       IN TkDelete(e, start, start + Len(e.cc))
  ELSE e

\* clear_ghost_text that forgets the text and keeps the anchor (line 294 left out)
ClearGhostTextKeepsAnchor(e) ==
  IF e.gs # NoPos /\ e.cc # <<>>
  THEN LET start == OffsetOf(Chars(e.doc), e.gs)
           end_pos == start + Len(e.cc)
           actual_text == TkGet(e.doc, start, end_pos)
           cleared == IF HasGhostTag(e.doc, start) /\ actual_text = e.cc
                      THEN TkDelete(e, start, end_pos)
                      ELSE e
       IN [cleared EXCEPT !.cc = <<>>]
  ELSE e

\* clear_ghost_text
ClearGhostText(e) ==
  IF e.gs # NoPos /\ e.cc # <<>>
  THEN LET start == OffsetOf(Chars(e.doc), e.gs)
           end_pos == start + Len(e.cc)
           actual_text == TkGet(e.doc, start, end_pos)
           cleared == IF HasGhostTag(e.doc, start) /\ actual_text = e.cc
                      THEN TkDelete(e, start, end_pos)
                      ELSE e
       IN [cleared EXCEPT !.gs = NoPos, !.cc = <<>>]
  ELSE e

\* accept_completion
AcceptCompletion(e) ==
  IF e.cc # <<>> /\ e.gs # NoPos
  THEN LET start == OffsetOf(Chars(e.doc), e.gs)
           end_pos == start + Len(e.cc)
           untagged == TkTagRemove(e, start, end_pos)
           moved == TkMarkSet(untagged, end_pos)
       IN [moved EXCEPT !.gs = NoPos, !.cc = <<>>]
  ELSE e

\* The non-blank lines among lines lo..hi of s, top to bottom
RECURSIVE NonBlankLines(_, _, _)
NonBlankLines(s, lo, hi) ==
  IF lo > hi THEN <<>>
  ELSE (IF Strip(LineText(s, lo)) # <<>> THEN <<LineText(s, lo)>> ELSE <<>>)
       \o NonBlankLines(s, lo + 1, hi)

\* current_line without the test for ghost text: always up to the cursor
CurrentLineToCursor(e) ==
  LET s == Chars(e.doc)
  IN TkGet(e.doc, LineStart(s, IndexOf(s, e.insert)[1]), e.insert)

\* current_line of get_context_around_cursor (lines 318-339): the cursor's
\* line up to the ghost text's start when that is on the line, else up to the
\* cursor
CurrentLine(e) ==
  LET s == Chars(e.doc)
      cursor_line_num == IndexOf(s, e.insert)[1]
      line_start == LineStart(s, cursor_line_num)
  IN IF e.gs # NoPos /\ e.gs[1] = cursor_line_num
     THEN TkGet(e.doc, line_start, OffsetOf(s, e.gs))
     ELSE TkGet(e.doc, line_start, e.insert)

\* All the lines lo..hi of s, top to bottom
RECURSIVE AllLines(_, _, _)
AllLines(s, lo, hi) ==
  IF lo > hi THEN <<>> ELSE <<LineText(s, lo)>> \o AllLines(s, lo + 1, hi)

\* get_context_around_cursor without the tests for blank lines
GetContextKeepingBlankLines(e) ==
  LET s == Chars(e.doc)
      cursor_line_num == IndexOf(s, e.insert)[1]
      start_line == Max(1, cursor_line_num - ContextLinesBefore)
      end_line == Min(NumLines(s), cursor_line_num + ContextLinesAfter)
  IN [before |-> Join(AllLines(s, start_line, cursor_line_num - 1), <<NL>>),
      line |-> CurrentLine(e),
      after |-> Join(AllLines(s, cursor_line_num + 1, end_line), <<NL>>)]

\* get_context_around_cursor: [before, line, after]
GetContextAroundCursor(e) ==
  LET s == Chars(e.doc)
      cursor_pos == IndexOf(s, e.insert)
      cursor_line_num == cursor_pos[1]
      current_line == CurrentLine(e)
      start_line == Max(1, cursor_line_num - ContextLinesBefore)
      lines_before == NonBlankLines(s, start_line, cursor_line_num - 1)
      total_lines == NumLines(s)
      end_line == Min(total_lines, cursor_line_num + ContextLinesAfter)
      lines_after == NonBlankLines(s, cursor_line_num + 1, end_line)
  IN [before |-> Join(SubSeq(lines_before,
                             Max(1, Len(lines_before) - ContextLinesBefore + 1),
                             Len(lines_before)), <<NL>>),
      line |-> current_line,
      after |-> Join(SubSeq(lines_after, 1, Min(ContextLinesAfter, Len(lines_after))),
                     <<NL>>)]

\* The column request_ai_completion takes for the logical end of the line
LogicalLineEndCol(e) ==
  LET s == Chars(e.doc)
      cursor_line_num == IndexOf(s, e.insert)[1]
  IN IF e.gs # NoPos /\ e.gs[1] = cursor_line_num
     THEN e.gs[2]
     ELSE LineEnd(s, cursor_line_num) - LineStart(s, cursor_line_num)

\* The checks of request_ai_completion without the tolerance of one character
TriggerAdmitsLineStrict(e) ==
  /\ Len(Strip(GetContextAroundCursor(e).line)) >= 1
  /\ ~(IndexOf(Chars(e.doc), e.insert)[2] < LogicalLineEndCol(e))

\* The checks of request_ai_completion on the line and the cursor
TriggerAdmitsLine(e) ==
  /\ Len(Strip(GetContextAroundCursor(e).line)) >= 1
  /\ ~(IndexOf(Chars(e.doc), e.insert)[2] < LogicalLineEndCol(e) - 1)

\* Strategy 3 of _trim_completion_overlap, from token i on
RECURSIVE TrimTokenPrefix(_, _, _, _)
TrimTokenPrefix(completion_words, i, current_word, completion) ==
  IF i > Len(completion_words) THEN completion
  ELSE IF StartsWith(LowerStr(completion_words[i]), LowerStr(current_word))
       THEN LET remaining_of_word == DropChars(completion_words[i], Len(current_word))
                word_index ==
                  CHOOSE j \in 1..Len(completion_words) :
                    /\ completion_words[j] = completion_words[i]
                    /\ \A k \in 1..(j - 1) : completion_words[k] # completion_words[i]
                remaining_words == SubSeq(completion_words, word_index + 1,
                                          Len(completion_words))
            IN IF remaining_words # <<>>
               THEN remaining_of_word \o <<SP>> \o Join(remaining_words, <<SP>>)
               ELSE remaining_of_word
       ELSE TrimTokenPrefix(completion_words, i + 1, current_word, completion)

\* _trim_completion_overlap without strategy 2, the search of lines 553-559
TrimCompletionOverlapNoSubstring(current_word, completion) ==
  IF current_word = <<>> THEN completion
  ELSE IF StartsWith(LowerStr(completion), LowerStr(current_word))
       THEN DropChars(completion, Len(current_word))
  ELSE TrimTokenPrefix(Split(completion), 1, current_word, completion)

\* _trim_completion_overlap
TrimCompletionOverlap(current_word, completion) ==
  IF current_word = <<>> THEN completion
  ELSE IF StartsWith(LowerStr(completion), LowerStr(current_word))
       THEN DropChars(completion, Len(current_word))
  ELSE IF Find(LowerStr(completion), LowerStr(current_word)) >= 0
       THEN DropChars(completion,
                      Find(LowerStr(completion), LowerStr(current_word)) + Len(current_word))
  ELSE TrimTokenPrefix(Split(completion), 1, current_word, completion)

\* _show_completion past its guard without the test of lines 515-517 for an
\* empty trimmed completion
ShowCompletionAtUnchecked(e, completion, cursor_pos) ==
  LET e1 == ClearGhostText(e)
      stripped == Strip(completion)
      s1 == Chars(e1.doc)
      current_line_text == TkGet(e1.doc, OffsetOf(s1, <<cursor_pos[1], 0>>),
                                 OffsetOf(s1, cursor_pos))
      words == Split(current_line_text)
      current_word == IF words # <<>> THEN words[Len(words)] ELSE <<>>
      trimmed_completion == TrimCompletionOverlap(current_word, stripped)
      e2 == TkInsertCells(e1, OffsetOf(s1, cursor_pos), Cells(trimmed_completion, TRUE))
      e3 == [e2 EXCEPT !.gs = cursor_pos, !.cc = trimmed_completion]
  IN IF stripped = <<>> THEN e1
     ELSE TkMarkSet(e3, OffsetOf(Chars(e3.doc), cursor_pos))

\* _show_completion past its stale-response guard (lines 487-528): clear the
\* old ghost text, trim the overlap and insert the rest as ghost text
ShowCompletionAt(e, completion, cursor_pos) ==
  LET e1 == ClearGhostText(e)
      stripped == Strip(completion)
      s1 == Chars(e1.doc)
      current_line_text == TkGet(e1.doc, OffsetOf(s1, <<cursor_pos[1], 0>>),
                                 OffsetOf(s1, cursor_pos))
      words == Split(current_line_text)
      current_word == IF words # <<>> THEN words[Len(words)] ELSE <<>>
      trimmed_completion == TrimCompletionOverlap(current_word, stripped)
      e2 == TkInsertCells(e1, OffsetOf(s1, cursor_pos), Cells(trimmed_completion, TRUE))
      e3 == [e2 EXCEPT !.gs = cursor_pos, !.cc = trimmed_completion]
  IN IF stripped = <<>> THEN e1
     ELSE IF trimmed_completion = <<>> THEN e1
     ELSE TkMarkSet(e3, OffsetOf(Chars(e3.doc), cursor_pos))

\* _show_completion without the guard of lines 481-485
ShowCompletionUnguarded(e, completion, cursor_pos) ==
  ShowCompletionAt(e, completion, cursor_pos)

\* _show_completion: a response whose cursor position is no longer the
\* cursor's is discarded (lines 481-485)
ShowCompletion(e, completion, cursor_pos) ==
  IF IndexOf(Chars(e.doc), e.insert) # cursor_pos THEN e
  ELSE ShowCompletionAt(e, completion, cursor_pos)

\* Whether _show_completion reaches its end (status and stats are updated)
ShowCompletionShows(e, completion, cursor_pos) ==
  /\ IndexOf(Chars(e.doc), e.insert) = cursor_pos
  /\ ShowCompletion(e, completion, cursor_pos).cc # <<>>

(***************************************************************************)
(* Keys.  A key is its Tk keysym; KeyChar is the character the Text        *)
(* widget's class binding inserts for it.                                  *)
(***************************************************************************)
ArrowKeys == {"Up", "Down", "Left", "Right"}
ContentChangingKeys == {"Return", "BackSpace", "Delete", "space"}
NavigationAndModifierKeys ==
  {"Home", "End", "Page_Up", "Page_Down",
   "Control_L", "Control_R", "Shift_L", "Shift_R", "Alt_L", "Alt_R",
   "Escape", "Tab", "Caps_Lock", "Num_Lock", "Scroll_Lock",
   "F1", "F2", "F3", "F4", "F5", "F6", "F7", "F8", "F9", "F10", "F11", "F12"}
PrintableKeys == {"a", "space", "parenleft", "Return"}

KeyChar(keysym) ==
  CASE keysym = "space" -> SP
    [] keysym = "parenleft" -> "("
    [] keysym = "Return" -> NL
    [] keysym = "Tab" -> TAB
    [] OTHER -> keysym

\* len(event.keysym) == 1
SingleCharKeysym(keysym) == keysym \in {"a", "b", "A", "B"}

\* on_key_press
OnKeyPress(e, keysym) ==
  LET is_content_key ==
        /\ (SingleCharKeysym(keysym) \/ keysym \in ContentChangingKeys)
        /\ ~(keysym \notin ArrowKeys /\ keysym \in NavigationAndModifierKeys)
      e1 == IF keysym \in ArrowKeys /\ e.gs # NoPos /\ e.cc # <<>>
            THEN ClearGhostText(e) ELSE e
  IN IF is_content_key /\ e1.gs # NoPos /\ e1.cc # <<>>
     THEN ClearGhostText(e1) ELSE e1

\* The Text widget's class binding for the key
DefaultKeyBinding(e, keysym) ==
  LET s == Chars(e.doc)
      pos == IndexOf(s, e.insert)
  IN CASE keysym \in PrintableKeys \/ keysym = "Tab" ->
            TkInsertTyped(e, e.insert, <<KeyChar(keysym)>>)
       [] keysym = "BackSpace" ->
            IF e.insert > 0 THEN TkDelete(e, e.insert - 1, e.insert) ELSE e
       [] keysym = "Delete" -> TkDelete(e, e.insert, e.insert + 1)
       [] keysym = "Left" -> TkMarkSet(e, Max(0, e.insert - 1))
       [] keysym = "Right" -> TkMarkSet(e, e.insert + 1)
       [] keysym = "Up" ->
            IF pos[1] = 1 THEN e ELSE TkMarkSet(e, OffsetOf(s, <<pos[1] - 1, pos[2]>>))
       [] keysym = "Down" ->
            IF pos[1] = NumLines(s) THEN e
            ELSE TkMarkSet(e, OffsetOf(s, <<pos[1] + 1, pos[2]>>))
       [] keysym = "Home" -> TkMarkSet(e, LineStart(s, pos[1]))
       [] keysym = "End" -> TkMarkSet(e, LineEnd(s, pos[1]))
       [] OTHER -> e

\* The widget's bindings for a key press: <Tab> is bound to on_tab_key, which
\* stops the event when it accepts; every other key goes to on_key_press.
KeyPressed(e, keysym) ==
  IF keysym = "Tab"
  THEN IF e.cc # <<>> /\ e.gs # NoPos THEN AcceptCompletion(e)
       ELSE DefaultKeyBinding(e, keysym)
  ELSE DefaultKeyBinding(OnKeyPress(e, keysym), keysym)

\* on_text_change without the tests of the checkbox and the engine
SchedulesAlways(enabled, engine, keysym) ==
  keysym \notin (ArrowKeys \cup {"Tab"})

\* on_text_change: whether the key release schedules request_ai_completion
SchedulesCompletion(enabled, engine, keysym) ==
  enabled /\ engine /\ keysym \notin (ArrowKeys \cup {"Tab"})

(***************************************************************************)
(* State.                                                                  *)
(***************************************************************************)
VARIABLES
  now,                      \* time.time(), in ms
  last_request_time,        \* AICompletionEngine._last_request_time
  completion_cache,         \* AICompletionEngine._completion_cache
  last_request_prompt,      \* AICompletionEngine.last_request_prompt
  last_response,            \* AICompletionEngine.last_response
  config,                   \* what AICompletionEngine.__init__ finds in config.json
  error_dialog,             \* the text of messagebox.showerror, if it was shown
  ai_engine,                \* CodeEditor.ai_engine is not None
  ai_enabled,               \* CodeEditor.ai_enabled_var
  doc,                      \* the text widget's content, with tags
  insert,                   \* offset of the widget's INSERT mark
  current_completion,       \* CodeEditor.current_completion
  ghost_text_start_pos,     \* CodeEditor.ghost_text_start_pos
  last_completion_request,  \* CodeEditor.last_completion_request, in ms
  status,                   \* the status bar's text
  timers,                   \* due times of pending after(300, request_ai_completion)
  uiQueue,                  \* callbacks posted with after(0, ...), oldest first
  thr,                      \* the background threads running _get_completion_async
  events,                   \* user events so far
  trig_log,                 \* history: the calls of request_ai_completion
  provider_called,          \* history: the calls (by number) that reached the provider
  insert_log,               \* history: the keys written to the cache, in order
  last_cb                   \* history: the last callback run, [trig, outcome]

startVars == <<config, error_dialog, ai_engine>>
engineVars == <<last_request_time, completion_cache, last_request_prompt, last_response>>
editVars == <<doc, insert, current_completion, ghost_text_start_pos>>
histVars == <<trig_log, provider_called, insert_log, last_cb>>
vars == <<now, engineVars, startVars, ai_enabled, editVars, last_completion_request,
          status, timers, uiQueue, thr, events, histVars>>

Ed == EdState(doc, insert, current_completion, ghost_text_start_pos)

SetEd(e) ==
  /\ doc' = e.doc
  /\ insert' = e.insert
  /\ current_completion' = e.cc
  /\ ghost_text_start_pos' = e.gs

IdleThread ==
  [pc |-> "idle", before |-> <<>>, line |-> <<>>, after |-> <<>>, cursor_pos |-> NoPos,
   current_time |-> 0, cache_key |-> <<>>, completion |-> None, oldest_key |-> <<>>,
   result |-> None, debounced |-> FALSE, hit |-> FALSE, trig |-> 0]

\* The thread a new threading.Thread gets: the lowest idle one
FreeThreads == {t \in Threads : thr[t].pc = "idle"}
NewThread == CHOOSE t \in FreeThreads : \A u \in FreeThreads : t <= u

\* What the provider may answer: no content, blank content, one line of text,
\* or two lines of text with trailing white space
ProviderContents == {<<>>, <<SP>>, <<"a", "b">>, <<"a", NL, "c", SP>>}

\* CodeEditor.__init__ and AICompletionEngine.__init__; the engine is absent
\* when its construction raised
Init ==
  /\ now = StartTime
  /\ last_request_time = 0
  /\ completion_cache = <<>>
  /\ last_request_prompt = None
  /\ last_response = None
  /\ config \in Configs
  /\ ai_engine = EngineConstructed(config)
  /\ error_dialog = IF ai_engine THEN NoDialog ELSE ConfigError(config)
  /\ ai_enabled = ai_engine
  /\ doc = <<>>
  /\ insert = 0
  /\ current_completion = <<>>
  /\ ghost_text_start_pos = NoPos
  /\ last_completion_request = 0
  /\ status = "Ready - Start typing Python code for AI completions!"
  /\ timers = <<>>
  /\ uiQueue = <<>>
  /\ thr = [t \in Threads |-> IdleThread]
  /\ events = 0
  /\ trig_log = <<>>
  /\ provider_called = {}
  /\ insert_log = <<>>
  /\ last_cb = [trig |-> 0, outcome |-> "none", shown |-> 0]

(***************************************************************************)
(* The clock.                                                              *)
(***************************************************************************)
Advance(steps, horizon) ==
  /\ \E d \in steps : now + d <= StartTime + horizon /\ now' = now + d
  /\ UNCHANGED <<engineVars, startVars, ai_enabled, editVars, last_completion_request,
                 status, timers, uiQueue, thr, events, histVars>>

Tick == Advance(TickMs, MaxElapsed)

(***************************************************************************)
(* AICompletionEngine.get_completion, run by background thread t.          *)
(***************************************************************************)
\* Lines 127-134 and line 59: reset the chat fields, enter _should_debounce
\* and read the clock
GetCompletionEnter(t) ==
  /\ thr[t].pc = "start"
  /\ last_request_prompt' = None
  /\ last_response' = None
  /\ thr' = [thr EXCEPT ![t].pc = "deb_check", ![t].current_time = now]
  /\ UNCHANGED <<now, last_request_time, completion_cache, startVars, ai_enabled,
                 editVars, last_completion_request, status, timers, uiQueue, events,
                 histVars>>

\* _should_debounce that never debounces
ShouldDebounceNever(current_time, last) == FALSE

\* _should_debounce, line 62: current_time - self._last_request_time < delay_ms
ShouldDebounce(current_time, last) == current_time - last < DelayMs

\* Lines 62-63 and 137-139: the comparison; a debounced call returns None
DebounceCheck(t) ==
  /\ thr[t].pc = "deb_check"
  /\ thr' = IF ShouldDebounce(thr[t].current_time, last_request_time)
            THEN [thr EXCEPT ![t].pc = "ret", ![t].result = None, ![t].debounced = TRUE]
            ELSE [thr EXCEPT ![t].pc = "deb_set"]
  /\ UNCHANGED <<now, engineVars, startVars, ai_enabled, editVars,
                 last_completion_request, status, timers, uiQueue, events, histVars>>

\* Line 65, self._last_request_time = current_time, then lines 141-165: look
\* the key up and, on a miss, build the prompt and send the request
DebounceSetAndLookup(t) ==
  /\ thr[t].pc = "deb_set"
  /\ last_request_time' = thr[t].current_time
  /\ LET cache_key == CreateCacheKey(thr[t].before, thr[t].after, thr[t].line)
     IN IF CacheHas(completion_cache, cache_key)
        THEN /\ thr' = [thr EXCEPT ![t].pc = "hit", ![t].cache_key = cache_key]
             /\ UNCHANGED <<last_request_prompt, provider_called>>
        ELSE /\ thr' = [thr EXCEPT ![t].pc = "api", ![t].cache_key = cache_key]
             /\ last_request_prompt' =
                  BuildCompletionPrompt(thr[t].before, thr[t].line, thr[t].after)
             /\ provider_called' = provider_called \cup {thr[t].trig}
  /\ UNCHANGED <<now, completion_cache, last_response, startVars, ai_enabled, editVars,
                 last_completion_request, status, timers, uiQueue, events,
                 trig_log, insert_log, last_cb>>

\* Line 146: return self._completion_cache[cache_key]; outside the try block,
\* so a key deleted since line 144 raises KeyError out of get_completion
CacheHit(t) ==
  /\ thr[t].pc = "hit"
  /\ thr' = IF CacheHas(completion_cache, thr[t].cache_key)
            THEN [thr EXCEPT ![t].pc = "ret", ![t].hit = TRUE,
                             ![t].result = CacheGet(completion_cache, thr[t].cache_key)]
            ELSE [thr EXCEPT ![t].pc = "exc", ![t].result = None]
  /\ UNCHANGED <<now, engineVars, startVars, ai_enabled, editVars,
                 last_completion_request, status, timers, uiQueue, events, histVars>>

\* Lines 175-191: the provider answered with `content`
ProviderReturns(t, content) ==
  /\ thr[t].pc = "api"
  /\ IF content # <<>>
     THEN LET completion == Strip(content)
          IN /\ last_response' = completion
             /\ completion_cache' = CacheSet(completion_cache, thr[t].cache_key, completion)
             /\ insert_log' = Append(insert_log, thr[t].cache_key)
             /\ thr' = [thr EXCEPT ![t].pc = "evict_check", ![t].completion = completion]
     ELSE /\ last_response' = NoCompletionReceived
          /\ thr' = [thr EXCEPT ![t].pc = "ret", ![t].result = None]
          /\ UNCHANGED <<completion_cache, insert_log>>
  /\ UNCHANGED <<now, last_request_time, last_request_prompt, startVars, ai_enabled,
                 editVars, last_completion_request, status, timers, uiQueue, events,
                 trig_log, provider_called, last_cb>>

\* The provider call raised and get_completion starts over instead of
\* returning None
ProviderRaisesRetries(t) ==
  /\ thr[t].pc = "api"
  /\ last_response' = ErrorResponse
  /\ thr' = [thr EXCEPT ![t].pc = "deb_set"]
  /\ UNCHANGED <<now, last_request_time, completion_cache, last_request_prompt,
                 startVars, ai_enabled, editVars, last_completion_request, status,
                 timers, uiQueue, events, histVars>>

\* The provider call raised and the except block also empties the cache and
\* resets the rate limiter
ProviderRaisesCorrupts(t) ==
  /\ thr[t].pc = "api"
  /\ last_response' = ErrorResponse
  /\ completion_cache' = <<>>
  /\ last_request_time' = 0
  /\ thr' = [thr EXCEPT ![t].pc = "ret", ![t].result = None]
  /\ UNCHANGED <<now, last_request_prompt, startVars, ai_enabled, editVars,
                 last_completion_request, status, timers, uiQueue, events, histVars>>

\* Lines 202-207: the provider call raised
ProviderRaises(t) ==
  /\ thr[t].pc = "api"
  /\ last_response' = ErrorResponse
  /\ thr' = [thr EXCEPT ![t].pc = "ret", ![t].result = None]
  /\ UNCHANGED <<now, last_request_time, completion_cache, last_request_prompt,
                 startVars, ai_enabled, editVars, last_completion_request, status,
                 timers, uiQueue, events, histVars>>

\* Line 194: if len(self._completion_cache) > 50
EvictCheck(t) ==
  /\ thr[t].pc = "evict_check"
  /\ thr' = IF Len(completion_cache) > CacheCapacity
            THEN [thr EXCEPT ![t].pc = "evict_pick"]
            ELSE [thr EXCEPT ![t].pc = "ret", ![t].result = thr[t].completion]
  /\ UNCHANGED <<now, engineVars, startVars, ai_enabled, editVars,
                 last_completion_request, status, timers, uiQueue, events, histVars>>

\* Line 196: oldest_key = next(iter(self._completion_cache)); on an empty
\* cache next() raises, which lines 202-207 catch
EvictPick(t) ==
  /\ thr[t].pc = "evict_pick"
  /\ IF completion_cache # <<>>
     THEN /\ thr' = [thr EXCEPT ![t].pc = "evict_del",
                                ![t].oldest_key = CacheOldest(completion_cache)]
          /\ UNCHANGED last_response
     ELSE /\ thr' = [thr EXCEPT ![t].pc = "ret", ![t].result = None]
          /\ last_response' = ErrorResponse
  /\ UNCHANGED <<now, last_request_time, completion_cache, last_request_prompt,
                 startVars, ai_enabled, editVars, last_completion_request, status,
                 timers, uiQueue, events, histVars>>

\* Line 197: del self._completion_cache[oldest_key]; a missing key raises
\* KeyError, which lines 202-207 catch
EvictDel(t) ==
  /\ thr[t].pc = "evict_del"
  /\ IF CacheHas(completion_cache, thr[t].oldest_key)
     THEN /\ completion_cache' = CacheDel(completion_cache, thr[t].oldest_key)
          /\ thr' = [thr EXCEPT ![t].pc = "ret", ![t].result = thr[t].completion]
          /\ UNCHANGED last_response
     ELSE /\ thr' = [thr EXCEPT ![t].pc = "ret", ![t].result = None]
          /\ last_response' = ErrorResponse
          /\ UNCHANGED completion_cache
  /\ UNCHANGED <<now, last_request_time, last_request_prompt, startVars, ai_enabled,
                 editVars, last_completion_request, status, timers, uiQueue, events,
                 histVars>>

\* One statement block of get_completion in thread t
EngineStep(t) ==
  CASE thr[t].pc = "start" -> GetCompletionEnter(t)
    [] thr[t].pc = "deb_check" -> DebounceCheck(t)
    [] thr[t].pc = "deb_set" -> DebounceSetAndLookup(t)
    [] thr[t].pc = "hit" -> CacheHit(t)
    [] thr[t].pc = "api" ->
         (\E content \in ProviderContents : ProviderReturns(t, content)) \/ ProviderRaises(t)
    [] thr[t].pc = "evict_check" -> EvictCheck(t)
    [] thr[t].pc = "evict_pick" -> EvictPick(t)
    [] thr[t].pc = "evict_del" -> EvictDel(t)
    [] OTHER -> FALSE

(***************************************************************************)
(* CodeEditor: the background thread and the callbacks it posts.           *)
(***************************************************************************)
\* _get_completion_async after get_completion returned or raised: post the
\* callback.  (The chat-window callbacks it also posts touch only the chat
\* widgets.)
Marshal(t) ==
  /\ thr[t].pc \in {"ret", "exc"}
  /\ uiQueue' = Append(uiQueue,
       IF thr[t].pc = "exc"
       THEN [kind |-> "error", completion |-> <<>>, cursor_pos |-> NoPos,
             trig |-> thr[t].trig]
       ELSE IF Truthy(thr[t].result) /\ Strip(thr[t].result) # <<>>
       THEN [kind |-> "show", completion |-> thr[t].result,
             cursor_pos |-> thr[t].cursor_pos, trig |-> thr[t].trig]
       ELSE [kind |-> "none", completion |-> <<>>, cursor_pos |-> NoPos,
             trig |-> thr[t].trig])
  /\ thr' = [thr EXCEPT ![t] = IdleThread]
  /\ UNCHANGED <<now, engineVars, startVars, ai_enabled, editVars,
                 last_completion_request, status, timers, events, histVars>>

\* Thread t, the target of threading.Thread in request_ai_completion
BackgroundStep(t) ==
  IF thr[t].pc \in {"ret", "exc"} THEN Marshal(t) ELSE EngineStep(t)

\* The Tk main loop runs the oldest posted callback: _show_completion, or a
\* lambda that sets the status
RunCallback ==
  /\ uiQueue # <<>>
  /\ uiQueue' = Tail(uiQueue)
  /\ LET h == Head(uiQueue)
     IN IF h.kind = "show"
        THEN /\ SetEd(ShowCompletion(Ed, h.completion, h.cursor_pos))
             /\ IF ShowCompletionShows(Ed, h.completion, h.cursor_pos)
                THEN /\ status' = "Completion ready - Press Tab to accept, or keep typing to dismiss"
                     /\ last_cb' = [trig |-> h.trig, outcome |-> "shown", shown |-> h.trig]
                ELSE /\ UNCHANGED status
                     /\ last_cb' = [trig |-> h.trig,
                                    outcome |-> IF IndexOf(Chars(doc), insert) # h.cursor_pos
                                                THEN "stale" ELSE "empty",
                                    shown |-> last_cb.shown]
        ELSE /\ status' = IF h.kind = "error" THEN "Completion error: KeyError"
                                              ELSE "No completion available"
             /\ last_cb' = [trig |-> h.trig, outcome |-> "none", shown |-> last_cb.shown]
             /\ UNCHANGED editVars
  /\ UNCHANGED <<now, engineVars, startVars, ai_enabled, last_completion_request,
                 timers, thr, events, trig_log, provider_called, insert_log>>

\* request_ai_completion without its debounce
TooSoonNever(current_time, last) == FALSE

\* request_ai_completion's own debounce: current_time - last_completion_request < 0.5
TooSoon(current_time, last) == current_time - last < UiDebounceMs

\* request_ai_completion with the widget in state e, where c is the context
\* it extracts and admitsLine the outcome of its line and cursor checks
RequestWith(e, c, admitsLine) ==
  LET n == Len(trig_log) + 1
      entry(adm, st) == [time |-> now, admitted |-> adm, started |-> st, limited |-> FALSE,
                         cursor_pos |-> IndexOf(Chars(e.doc), e.insert)]
  IN IF ~ai_engine \/ ~ai_enabled
     THEN /\ trig_log' = Append(trig_log, entry(FALSE, FALSE))
          /\ UNCHANGED <<last_completion_request, thr, status>>
     ELSE IF TooSoon(now, last_completion_request)
     THEN /\ trig_log' = Append(trig_log, [entry(FALSE, FALSE) EXCEPT !.limited = TRUE])
          /\ UNCHANGED <<last_completion_request, thr, status>>
     ELSE /\ last_completion_request' = now
          /\ IF admitsLine
             THEN /\ FreeThreads # {}
                  /\ thr' = [thr EXCEPT ![NewThread] =
                               [IdleThread EXCEPT !.pc = "start", !.before = c.before,
                                  !.line = c.line, !.after = c.after,
                                  !.cursor_pos = IndexOf(Chars(e.doc), e.insert),
                                  !.trig = n]]
                  /\ status' = "Requesting AI completion..."
                  /\ trig_log' = Append(trig_log, entry(TRUE, TRUE))
             ELSE /\ trig_log' = Append(trig_log, entry(TRUE, FALSE))
                  /\ UNCHANGED <<thr, status>>

\* request_ai_completion
RequestAiCompletion(e) ==
  RequestWith(e, GetContextAroundCursor(e), TriggerAdmitsLine(e))

\* A timer set by on_text_change comes due
FireTimer ==
  /\ timers # <<>>
  /\ now >= Head(timers)
  /\ timers' = Tail(timers)
  /\ RequestAiCompletion(Ed)
  /\ UNCHANGED <<now, engineVars, startVars, ai_enabled, editVars, uiQueue, events,
                 provider_called, insert_log, last_cb>>

(***************************************************************************)
(* CodeEditor: user events.                                                *)
(***************************************************************************)
Keys == {"a", "space", "parenleft", "BackSpace", "Left", "End", "Tab", "Shift_L"}

\* A key is pressed and released: on_key_press or on_tab_key, the class
\* binding, then on_text_change
KeyStrokeWithin(keysym, budget) ==
  /\ events < budget
  /\ events' = events + 1
  /\ SetEd(KeyPressed(Ed, keysym))
  /\ status' = IF keysym = "Tab" /\ current_completion # <<>> /\ ghost_text_start_pos # NoPos
               THEN "Completion accepted!" ELSE status
  /\ timers' = IF SchedulesCompletion(ai_enabled, ai_engine, keysym)
               THEN Append(timers, now + ScheduleDelayMs) ELSE timers
  /\ UNCHANGED <<now, engineVars, startVars, ai_enabled, last_completion_request,
                 uiQueue, thr, histVars>>

KeyStroke(keysym) == KeyStrokeWithin(keysym, MaxEvents)

\* Control-space: the widget's key bindings see the key "space", then the
\* root binding calls request_ai_completion
ManualTrigger ==
  /\ events < MaxEvents
  /\ events' = events + 1
  /\ LET e == OnKeyPress(Ed, "space")
     IN /\ SetEd(e)
        /\ RequestAiCompletion(e)
  /\ timers' = IF SchedulesCompletion(ai_enabled, ai_engine, "space")
               THEN Append(timers, now + ScheduleDelayMs) ELSE timers
  /\ UNCHANGED <<now, engineVars, startVars, ai_enabled, uiQueue,
                 provider_called, insert_log, last_cb>>

\* on_click, then the class binding puts the cursor at offset o
Click(o) ==
  /\ events < MaxEvents
  /\ events' = events + 1
  /\ LET e == ClearGhostText(Ed)
     IN /\ o <= Len(e.doc)
        /\ SetEd(TkMarkSet(e, o))
  /\ UNCHANGED <<now, engineVars, startVars, ai_enabled, last_completion_request,
                 status, timers, uiQueue, thr, histVars>>

\* new_file
NewFile ==
  /\ events < MaxEvents
  /\ events' = events + 1
  /\ SetEd(ClearGhostText(EdState(<<>>, 0, current_completion, ghost_text_start_pos)))
  /\ status' = "New file created"
  /\ UNCHANGED <<now, engineVars, startVars, ai_enabled, last_completion_request,
                 timers, uiQueue, thr, histVars>>

\* The "Enabled" checkbutton
ToggleEnabled ==
  /\ events < MaxEvents
  /\ events' = events + 1
  /\ ai_enabled' = ~ai_enabled
  /\ UNCHANGED <<now, engineVars, startVars, editVars, last_completion_request,
                 status, timers, uiQueue, thr, histVars>>

Next ==
  \/ Tick
  \/ \E keysym \in Keys : KeyStroke(keysym)
  \/ ManualTrigger
  \/ \E o \in 0..MaxEvents : Click(o)
  \/ NewFile
  \/ ToggleEnabled
  \/ FireTimer
  \/ RunCallback
  \/ \E t \in Threads : BackgroundStep(t)

Spec == Init /\ [][Next]_vars

(***************************************************************************)
(* The engine on its own, with the calls' contexts drawn from a small set  *)
(* instead of read from a document.  The n-th call uses one of the first n *)
(* letters: fingerprints only need to be equal or different, so which      *)
(* letter comes first does not matter.                                     *)
(***************************************************************************)
Letters == <<"a", "b", "c", "d", "e", "f", "g">>
MaxCalls == CacheCapacity + 2
EngineHorizon == (CacheCapacity + 1) * DelayMs
\* The cursor line of the n-th call: a line not used before, or the first one
EngineLines == {<<Letters[1]>>, <<Letters[Min(events + 1, Len(Letters))]>>}

EngineTick == Advance({DelayMs}, EngineHorizon)

InitEngine == Init /\ ai_engine

\* engine.get_completion(context_before, cursor_line, context_after) is
\* called in a new thread, as _get_completion_async does
DirectCall(line) ==
  /\ events < MaxCalls
  /\ events' = events + 1
  /\ FreeThreads # {}
  /\ thr' = [thr EXCEPT ![NewThread] = [IdleThread EXCEPT !.pc = "start", !.line = line,
                                                           !.trig = events + 1]]
  /\ UNCHANGED <<now, engineVars, startVars, ai_enabled, editVars,
                 last_completion_request, status, timers, uiQueue, histVars>>

\* The caller has the result (and may read engine.get_stats())
DirectReturn(t) ==
  /\ thr[t].pc \in {"ret", "exc"}
  /\ thr' = [thr EXCEPT ![t] = IdleThread]
  /\ UNCHANGED <<now, engineVars, startVars, ai_enabled, editVars,
                 last_completion_request, status, timers, uiQueue, events, histVars>>

NextEngine ==
  \/ EngineTick
  \/ \E line \in EngineLines : DirectCall(line)
  \/ \E t \in Threads : EngineStep(t)
  \/ \E t \in Threads : DirectReturn(t)

\* Up to two threads at a time inside get_completion, as the editor's
\* background threads are
SpecEngine == InitEngine /\ [][NextEngine]_vars

\* A call by a single caller, as in test_ai.py: no other call is in progress
SeqCall(line) ==
  /\ \A t \in Threads : thr[t].pc = "idle"
  /\ DirectCall(line)

NextSeq ==
  \/ EngineTick
  \/ \E line \in EngineLines : SeqCall(line)
  \/ \E t \in Threads : EngineStep(t)
  \/ \E t \in Threads : DirectReturn(t)

\* One caller, one call at a time
SpecSeq == InitEngine /\ [][NextSeq]_vars

(***************************************************************************)
(* The editor driven by the keyboard alone: one key more than MaxEvents,   *)
(* from a smaller set of keys.                                             *)
(***************************************************************************)
TypingKeys == {"a", "parenleft", "Home", "End", "Tab"}
MaxKeys == MaxEvents + 1

TypeKey(keysym) == KeyStrokeWithin(keysym, MaxKeys)

NextTyping ==
  \/ Tick
  \/ \E keysym \in TypingKeys : TypeKey(keysym)
  \/ FireTimer
  \/ RunCallback
  \/ \E t \in Threads : BackgroundStep(t)

SpecTyping == InitEngine /\ [][NextTyping]_vars

(***************************************************************************)
(* The delivery of one completion, with the line's text and the completion *)
(* drawn from small sets: a response arrives for a request made at the end *)
(* of the line, while the line shows no suggestion or the suggestion of an *)
(* overlapping request.                                                    *)
(***************************************************************************)
MaxCompletionLen == 3
ResolveAlphabet == {"a", "b", "A", SP, CapIDot}
\* The text of the line up to the cursor
ResolveLines == {<<SP>>, <<"a">>, <<"A">>, <<"b">>, <<"a", "b">>, <<"b", SP>>}
\* Longer completions in which a later token starts with the line's word:
\* the word also occurs inside an earlier token, or the tokens after it are
\* separated by more than one space
TokenCompletions ==
  {<<"b", "a", SP, "a", "b">>, <<"b", SP, "a", "b", SP, SP, "b">>}
\* The completions _get_completion_async passes on: not blank
ResolveCompletions ==
  {c \in UNION {[1..n -> ResolveAlphabet] : n \in 1..MaxCompletionLen} : Strip(c) # <<>>}
    \cup TokenCompletions
\* The suggestion that is showing when the response arrives, if any
ResolveShowing == {<<>>, <<"b">>}

InitResolve ==
  /\ now = StartTime + DelayMs
  /\ last_request_time = StartTime
  /\ completion_cache = <<>>
  /\ last_request_prompt = None
  /\ last_response = None
  /\ config = "ok"
  /\ error_dialog = NoDialog
  /\ ai_engine = TRUE
  /\ ai_enabled = TRUE
  /\ \E line \in ResolveLines, showing \in ResolveShowing, completion \in ResolveCompletions :
       /\ doc = Cells(line, FALSE) \o Cells(showing, TRUE)
       /\ insert = Len(line)
       /\ current_completion = showing
       /\ ghost_text_start_pos = IF showing = <<>> THEN NoPos ELSE <<1, Len(line)>>
       /\ uiQueue = <<[kind |-> "show", completion |-> completion,
                       cursor_pos |-> <<1, Len(line)>>, trig |-> 2]>>
       /\ trig_log = <<[time |-> StartTime - UiDebounceMs, admitted |-> TRUE,
                        started |-> TRUE, limited |-> FALSE,
                        cursor_pos |-> <<1, Len(line)>>],
                       [time |-> StartTime, admitted |-> TRUE, started |-> TRUE,
                        limited |-> FALSE, cursor_pos |-> <<1, Len(line)>>]>>
  /\ last_completion_request = StartTime
  /\ status = "Requesting AI completion..."
  /\ timers = <<>>
  /\ thr = [t \in Threads |-> IdleThread]
  /\ events = MaxEvents
  /\ provider_called = {1, 2}
  /\ insert_log = <<>>
  /\ last_cb = [trig |-> 1, outcome |-> "none", shown |-> 0]

NextResolve == RunCallback

SpecResolve == InitResolve /\ [][NextResolve]_vars

(***************************************************************************)
(* The extraction of the context, with the document and the cursor's line  *)
(* drawn from a set of documents of up to MaxDocLines lines, up to two of  *)
(* them blank: the timer of a key release fires request_ai_completion.     *)
(***************************************************************************)
MaxDocLines == 18

\* The text of the n-th line: two letters, different for every line
ContextLine(n) ==
  <<Letters[((n - 1) % Len(Letters)) + 1], Letters[((n - 1) \div Len(Letters)) + 1]>>

\* The sets of up to two of the lines 1..n
UpToTwoOf(n) == {{i, j} \ {0} : i, j \in 0..n}

\* A document of n lines of which those in `blank` are empty (odd lines) or
\* hold one space (even lines)
ContextDoc(n, blank) ==
  Join([i \in 1..n |-> IF i \in blank THEN (IF i % 2 = 1 THEN <<>> ELSE <<SP>>)
                       ELSE ContextLine(i)], <<NL>>)

InitContext ==
  /\ now = StartTime + ScheduleDelayMs
  /\ last_request_time = 0
  /\ completion_cache = <<>>
  /\ last_request_prompt = None
  /\ last_response = None
  /\ config = "ok"
  /\ error_dialog = NoDialog
  /\ ai_engine = TRUE
  /\ ai_enabled = TRUE
  /\ \E n \in 1..MaxDocLines :
       \E blank \in UpToTwoOf(n), cursor_line \in 1..n :
         /\ doc = Cells(ContextDoc(n, blank), FALSE)
         /\ insert = LineEnd(Chars(doc), cursor_line)
  /\ current_completion = <<>>
  /\ ghost_text_start_pos = NoPos
  /\ last_completion_request = 0
  /\ status = "Ready - Start typing Python code for AI completions!"
  /\ timers = <<StartTime + ScheduleDelayMs>>
  /\ uiQueue = <<>>
  /\ thr = [t \in Threads |-> IdleThread]
  /\ events = MaxEvents
  /\ trig_log = <<>>
  /\ provider_called = {}
  /\ insert_log = <<>>
  /\ last_cb = [trig |-> 0, outcome |-> "none", shown |-> 0]

NextContext == FireTimer

SpecContext == InitContext /\ [][NextContext]_vars

(***************************************************************************)
(* Two calls of get_completion with context windows drawn from a small set *)
(* that has windows differing in white space, inside the slices the key is *)
(* made of, and beyond them.                                               *)
(***************************************************************************)
Filler(n) == [i \in 1..n |-> "x"]

FpBefores ==
  {<<"a">>, <<"a", "b">>,
   <<"p">> \o Filler(KeyBeforeChars), <<"q">> \o Filler(KeyBeforeChars)}
FpLines == {<<"c">>, <<"b", "c">>, <<SP, "c">>}
FpAfters == {Filler(KeyAfterChars) \o <<"y">>, Filler(KeyAfterChars) \o <<NL, "z">>}

FpWindows == [before : FpBefores, line : FpLines, after : FpAfters]

\* Two tasks have been started, each with its window
InitFingerprint ==
  /\ now = StartTime
  /\ last_request_time = 0
  /\ completion_cache = <<>>
  /\ last_request_prompt = None
  /\ last_response = None
  /\ config = "ok"
  /\ error_dialog = NoDialog
  /\ ai_engine = TRUE
  /\ ai_enabled = TRUE
  /\ doc = <<>>
  /\ insert = 0
  /\ current_completion = <<>>
  /\ ghost_text_start_pos = NoPos
  /\ last_completion_request = 0
  /\ status = "Ready - Start typing Python code for AI completions!"
  /\ timers = <<>>
  /\ uiQueue = <<>>
  /\ \E w \in [Threads -> FpWindows] :
       thr = [t \in Threads |->
                [IdleThread EXCEPT !.pc = "start", !.before = w[t].before,
                                   !.line = w[t].line, !.after = w[t].after, !.trig = t]]
  /\ events = Cardinality(Threads)
  /\ trig_log = <<>>
  /\ provider_called = {}
  /\ insert_log = <<>>
  /\ last_cb = [trig |-> 0, outcome |-> "none", shown |-> 0]

NextFingerprint ==
  \/ \E t \in Threads : EngineStep(t)
  \/ \E t \in Threads : DirectReturn(t)

SpecFingerprint == InitFingerprint /\ [][NextFingerprint]_vars

(***************************************************************************)
(* A burst of typed characters on a finer clock, with the scheduling the   *)
(* program relies on: the Tk main loop runs every due timer and every      *)
(* posted callback, every started thread runs to its end, and time passes. *)
(* Keys stop early enough for their timers to come due within the horizon. *)
(* Only RunCallback takes a callback off uiQueue, and it can whenever the  *)
(* queue is not empty, so its fairness is stated on taking the oldest      *)
(* callback off the queue.                                                 *)
(***************************************************************************)
BurstTickMs == {100}
BurstHorizon == 2 * ScheduleDelayMs
BurstKeys == {"a", "parenleft"}
MaxBurstKeys == MaxEvents

BurstTick == Advance(BurstTickMs, BurstHorizon)

BurstKey(keysym) ==
  /\ now + ScheduleDelayMs <= StartTime + BurstHorizon
  /\ KeyStrokeWithin(keysym, MaxBurstKeys)

NextBurst ==
  \/ BurstTick
  \/ \E keysym \in BurstKeys : BurstKey(keysym)
  \/ FireTimer
  \/ RunCallback
  \/ \E t \in Threads : BackgroundStep(t)

SpecBurst ==
  /\ InitEngine
  /\ [][NextBurst]_vars
  /\ WF_vars(BurstTick)
  /\ WF_vars(FireTimer)
  /\ WF_uiQueue(uiQueue # <<>> /\ uiQueue' = Tail(uiQueue))
  /\ \A t \in Threads : WF_vars(BackgroundStep(t))

(***************************************************************************)
(* Properties.                                                             *)
(***************************************************************************)
\* A background thread takes a step of get_completion or posts its callback
BackgroundMoved == \E t \in Threads : thr[t].pc # "idle" /\ thr'[t] # thr[t]

\* C1: every mutation of the ActiveSuggestion, the result cache and the
\* rate-limiter timestamp is made on the UI thread: no step of a background
\* thread changes any of them.
C1_SingleWriter ==
  [][BackgroundMoved =>
       UNCHANGED <<current_completion, ghost_text_start_pos, completion_cache,
                   last_request_time>>]_vars

\* The offsets of the document's characters that carry the ghost_text tag
GhostOffsets == {i \in 1..Len(doc) : doc[i].g}

\* The span the ActiveSuggestion records: anchor and text
RecordedSpan ==
  IF ghost_text_start_pos = NoPos THEN {}
  ELSE LET start == OffsetOf(Chars(doc), ghost_text_start_pos)
       IN (start + 1)..(start + Len(current_completion))

\* C2: in every reachable state the document contains no ghost text other
\* than the single span recorded in the ActiveSuggestion: the tagged
\* characters are exactly those of the recorded span and spell its text.
C2_OnlyRecordedOverlay ==
  /\ GhostOffsets = RecordedSpan
  /\ \A i \in RecordedSpan :
       LET start == OffsetOf(Chars(doc), ghost_text_start_pos)
       IN i <= Len(doc) /\ doc[i].c = current_completion[i - start]

\* The main loop runs the oldest posted callback
Delivery == uiQueue # <<>> /\ uiQueue' = Tail(uiQueue)

\* C3: when a completion result is delivered and the cursor is no longer at
\* the position captured with its request, the document, the
\* ActiveSuggestion and the cursor are left unchanged.
C3_StaleDiscarded ==
  [][(/\ Delivery
      /\ Head(uiQueue).kind = "show"
      /\ IndexOf(Chars(doc), insert) # Head(uiQueue).cursor_pos)
     => UNCHANGED <<doc, insert, current_completion, ghost_text_start_pos>>]_vars

\* C3 witness: a delivered result was discarded as stale
C3_StaleSeen == last_cb.outcome = "stale"

\* C4: once the response of a later request has been applied, the response
\* of an earlier request changes neither the ActiveSuggestion nor the
\* document when it is delivered.
C4_SupersededNoOp ==
  [][(Delivery /\ Head(uiQueue).trig < last_cb.shown)
     => UNCHANGED <<doc, current_completion, ghost_text_start_pos>>]_vars

\* Triggers i and j, in this order, less than completionDelayMs apart
ClosePair(i, j) ==
  /\ i < j
  /\ trig_log[j].time - trig_log[i].time < UiDebounceMs

\* C5 as stated: of two triggers less than completionDelayMs apart the second
\* is suppressed, and at most one provider call is made for the pair.
C5_SecondSuppressed ==
  \A i, j \in 1..Len(trig_log) :
    ClosePair(i, j) =>
      /\ ~trig_log[j].admitted
      /\ ~(i \in provider_called /\ j \in provider_called)

\* C5 amended: of two triggers less than completionDelayMs apart the second
\* is suppressed if the first was admitted, and at most one of the two is
\* admitted, so that at most one provider call is made for the pair.
C5_OneOfPairAdmitted ==
  \A i, j \in 1..Len(trig_log) :
    ClosePair(i, j) =>
      /\ (trig_log[i].admitted => ~trig_log[j].admitted)
      /\ ~(i \in provider_called /\ j \in provider_called)

\* C5 witness: a trigger was admitted and led to a provider call, and a
\* trigger less than completionDelayMs later was suppressed by the limiter
C5_PairSuppressed ==
  \E i, j \in 1..Len(trig_log) :
    /\ ClosePair(i, j)
    /\ trig_log[i].admitted
    /\ i \in provider_called
    /\ trig_log[j].limited

\* C6: the rate-limiter timestamp changes only by an admitted check, which
\* sets it to that check's time, at least d after the stored one: the
\* timestamp never decreases and admitted checks are at least d apart.
C6_TimestampAdvances ==
  [][last_request_time' # last_request_time =>
       last_request_time' - last_request_time >= DelayMs]_vars

\* No call is between its insertion and the end of its eviction
NoEvictionPending ==
  \A t \in Threads : thr[t].pc \notin {"evict_check", "evict_pick", "evict_del"}

\* The keys of the cache in iteration order
CacheKeys == [i \in 1..Len(completion_cache) |-> completion_cache[i].k]

\* C7: after insertions of distinct fingerprints that exceed the capacity,
\* the cache holds exactly the C most recently inserted entries, in
\* insertion order.
C7_HoldsMostRecent ==
  LET n == Len(insert_log)
  IN (/\ NoEvictionPending
      /\ n > CacheCapacity
      /\ \A i, j \in 1..n : i # j => insert_log[i] # insert_log[j])
     => CacheKeys = SubSeq(insert_log, n - CacheCapacity + 1, n)

\* C8: once all in-flight get_completion calls have returned, the cache
\* holds at most C entries.
C8_CacheBounded ==
  (\A t \in Threads : thr[t].pc \in {"idle", "ret", "exc"})
  => Len(completion_cache) <= CacheCapacity

\* C9: an admitted request whose fingerprint was found in the cache resolves
\* with the cached text, makes no provider call, and leaves the cache's
\* contents and order unchanged.
C9_HitResolves ==
  [][\A t \in Threads :
       (thr[t].pc = "hit" /\ thr'[t] # thr[t]) =>
         /\ thr'[t].pc = "ret"
         /\ \E i \in 1..Len(completion_cache) :
              /\ completion_cache[i].k = thr[t].cache_key
              /\ thr'[t].result = completion_cache[i].v
         /\ UNCHANGED <<completion_cache, provider_called>>]_vars

\* C10: every value stored in the cache is a non-empty string.
C10_CacheValuesNonEmpty ==
  \A i \in 1..Len(completion_cache) : completion_cache[i].v # <<>>

\* The line of the document that holds its i-th character
LineOfChar(i) == IndexOf(Chars(doc), i - 1)[1]

\* The lines whose text get_context_around_cursor puts into context_before
\* and context_after: the non-blank ones among the 10 before and the 5 after
\* the cursor's line
WindowLines ==
  LET s == Chars(doc)
      cl == IndexOf(s, insert)[1]
  IN {l \in (Max(1, cl - ContextLinesBefore)..(cl - 1))
            \cup ((cl + 1)..Min(NumLines(s), cl + ContextLinesAfter)) :
        Strip(LineText(s, l)) # <<>>}

\* C11: in every reachable state the before and after fields of the
\* extracted context window contain no character of the displayed
\* suggestion: no ghost character lies on a line these fields are built from.
C11_WindowExcludesSuggestion ==
  \A i \in GhostOffsets : doc[i].c # NL => LineOfChar(i) \notin WindowLines

\* A suggestion is anchored on the cursor's line
AnchoredOnCursorLine ==
  /\ ghost_text_start_pos # NoPos
  /\ ghost_text_start_pos[1] = IndexOf(Chars(doc), insert)[1]

SuggestionLive == ghost_text_start_pos # NoPos /\ current_completion # <<>>

\* C13: in every reachable state in which a suggestion is live the cursor is
\* at the suggestion's anchor position.
C13_CursorAtAnchor ==
  SuggestionLive => IndexOf(Chars(doc), insert) = ghost_text_start_pos

\* The text of the document in the span that starts at the remembered anchor
\* and has the length of the remembered suggestion
SpanAtAnchor ==
  LET start == OffsetOf(Chars(doc), ghost_text_start_pos)
  IN SubSeq(Chars(doc), start + 1, Min(start + Len(current_completion), Len(doc)))

\* C14: dismissing a live suggestion always clears the in-memory
\* ActiveSuggestion; it changes the document only by deleting the span at the
\* remembered anchor, and only if that span still holds exactly the
\* remembered text; otherwise the document and the cursor stay unchanged.
C14_DismissVerifies ==
  SuggestionLive =>
    LET r == ClearGhostText(Ed)
        start == OffsetOf(Chars(doc), ghost_text_start_pos)
    IN /\ r.cc = <<>>
       /\ r.gs = NoPos
       /\ r.doc # doc =>
            /\ SpanAtAnchor = current_completion
            /\ r.doc = SubSeq(doc, 1, start)
                         \o SubSeq(doc, start + Len(current_completion) + 1, Len(doc))
       /\ SpanAtAnchor # current_completion => (r.doc = doc /\ r.insert = insert)

\* C14 witness: a dismissal whose verification failed has cleared the
\* ActiveSuggestion and left the old overlay in the document, next to the
\* overlay of the suggestion shown since
C14_OverlayLeftBehind ==
  /\ last_cb.outcome = "shown"
  /\ RecordedSpan # {}
  /\ RecordedSpan \subseteq GhostOffsets
  /\ GhostOffsets \ RecordedSpan # {}
  /\ SpanAtAnchor = current_completion

\* C15: dismissing when no suggestion is active changes neither the
\* document nor the cursor nor the controller state, and dismissing twice in
\* a row has the effect of dismissing once.
C15_DismissIdempotent ==
  /\ ~SuggestionLive => ClearGhostText(Ed) = Ed
  /\ ClearGhostText(ClearGhostText(Ed)) = ClearGhostText(Ed)

\* C15 witness: new_file has dismissed although no suggestion was ever
\* requested
C15_DismissedWithoutSuggestion ==
  /\ status = "New file created"
  /\ trig_log = <<>>
  /\ events > 0

\* on_tab_key accepts the live suggestion
AcceptStep ==
  /\ SuggestionLive
  /\ ~SuggestionLive'
  /\ status' = "Completion accepted!"

\* C16: accepting a live suggestion leaves the document equal to the text
\* before the anchor, the suggestion's text and the text that followed it,
\* puts the cursor immediately after the suggestion's text, and leaves no
\* overlay in the document.
C16_AcceptCommits ==
  [][AcceptStep =>
       LET s == Chars(doc)
           start == OffsetOf(s, ghost_text_start_pos)
           n == Len(current_completion)
       IN /\ Chars(doc') = SubSeq(s, 1, start) \o current_completion
                             \o SubSeq(s, start + n + 1, Len(s))
          /\ insert' = start + n
          /\ GhostOffsets' = {}]_vars

\* request_ai_completion is called
TriggerStep == Len(trig_log') = Len(trig_log) + 1

\* The line prefix of the cursor's line: up to the anchor of a suggestion on
\* that line, else up to the cursor
LinePrefix ==
  LET s == Chars(doc)
      cursor_pos == IndexOf(s, insert)
      line_text == LineText(s, cursor_pos[1])
  IN SubSeq(line_text, 1,
            IF AnchoredOnCursorLine THEN Min(ghost_text_start_pos[2], Len(line_text))
            ELSE cursor_pos[2])

\* The logical end of the cursor's line: the anchor column of a suggestion on
\* that line, else the column of the end of the line
LogicalEnd ==
  IF AnchoredOnCursorLine THEN ghost_text_start_pos[2]
  ELSE Len(LineText(Chars(doc), IndexOf(Chars(doc), insert)[1]))

CursorCol == IndexOf(Chars(doc), insert)[2]

StartedTriggers == {i \in 1..Len(trig_log) : trig_log[i].started}

\* C18: request_ai_completion is scheduled only by a key event, only while
\* completion is enabled and an engine is configured, and never by an arrow
\* key or Tab; a trigger that finds completion disabled or no engine starts
\* nothing, and every provider call belongs to a trigger that started a task.
C18_TriggerConditions ==
  [][/\ Len(timers') > Len(timers) =>
          (ai_enabled /\ ai_engine /\ events' = events + 1)
     /\ \A keysym \in Keys :
          (KeyStroke(keysym)
             /\ (keysym \in ArrowKeys \cup {"Tab"} \/ ~ai_enabled \/ ~ai_engine))
          => timers' = timers
     /\ (TriggerStep /\ (~ai_enabled \/ ~ai_engine)) =>
          (~trig_log'[Len(trig_log')].started /\ thr' = thr)
     /\ provider_called' \subseteq StartedTriggers']_vars

\* C18 witness: with completion disabled a key has been typed and no trigger
\* was scheduled or run
C18_TypedWhileDisabled ==
  /\ ai_engine
  /\ ~ai_enabled
  /\ doc # <<>>
  /\ timers = <<>>
  /\ trig_log = <<>>

\* The callback at the head of the queue reports the outcome of a call that
\* reached the provider and got a failure or an empty or absent completion
FailureDelivered ==
  /\ Delivery
  /\ Head(uiQueue).kind \in {"none", "error"}
  /\ Head(uiQueue).trig \in provider_called

\* C19: when the result of a failed provider call, or an empty or absent
\* completion, is delivered, the editor is left with no suggestion showing
\* (an overlay that was showing is removed and the ActiveSuggestion is
\* cleared) and a status message is set.
C19_FailureLeavesNoSuggestion ==
  [][FailureDelivered =>
       (/\ GhostOffsets' = {}
        /\ ~SuggestionLive'
        /\ status' \in {"No completion available", "Completion error: KeyError"})]_vars

\* Thread t sends its request to the provider in this step
ProviderCallStep(t) == thr[t].pc # "api" /\ thr'[t].pc = "api"

\* The provider call of thread t fails in this step
ProviderFailStep(t) ==
  thr[t].pc = "api" /\ thr'[t] # thr[t] /\ last_response' = ErrorResponse

\* C20: every provider call is made for a trigger that started a task and
\* that has made no provider call before, so a failed call is followed by no
\* further call until a new trigger is admitted; a failing call is caught
\* inside get_completion, which returns None to the task without touching
\* the editor's state.
C20_NoRetry ==
  [][\A t \in Threads :
       /\ ProviderCallStep(t) =>
            (/\ thr[t].trig \notin provider_called
             /\ thr[t].trig \in StartedTriggers
             /\ thr'[t].trig = thr[t].trig)
       /\ ProviderFailStep(t) =>
            (/\ thr'[t].pc = "ret"
             /\ thr'[t].result = None
             /\ UNCHANGED <<editVars, status, timers, uiQueue, provider_called>>)]_vars

\* C20 witness: a provider call failed, its task ended, the status message
\* was delivered, and the provider was called once
C20_FailedOnce ==
  /\ last_response = ErrorResponse
  /\ status = "No completion available"
  /\ \A t \in Threads : thr[t].pc = "idle"
  /\ uiQueue = <<>>
  /\ Cardinality(provider_called) = 1

\* C21: a failing provider call changes neither the cache nor the two
\* rate-limiter timestamps, and leaves the call exactly where an answer
\* without content leaves it (returning None); the two outcomes differ only
\* in last_response, which every later call resets before it reads anything.
C21_FailureIsLocal ==
  [][\A t \in Threads :
       ProviderFailStep(t) =>
         (/\ UNCHANGED <<completion_cache, last_request_time, last_completion_request,
                         last_request_prompt, insert_log>>
          /\ thr' = [thr EXCEPT ![t].pc = "ret", ![t].result = None])]_vars

\* C21 witness: a provider call has failed while the cache held an entry and
\* the rate limiter a timestamp
C21_FailedWithCacheFilled ==
  /\ last_response = ErrorResponse
  /\ completion_cache # <<>>
  /\ last_request_time > 0
  /\ \E t \in Threads : thr[t].pc = "ret" /\ thr[t].result = None

\* The ends k of the texts s[from+1..k] that equal p when case is ignored
MatchEnds(s, p, from) ==
  {k \in from..Len(s) : LowerStr(SubSeq(s, from + 1, k)) = LowerStr(p)}

\* The offsets in s at which an occurrence of p starts, case ignored
MatchStarts(s, p) == {from \in 0..Len(s) : MatchEnds(s, p, from) # {}}

SetMin(S) == CHOOSE x \in S : \A y \in S : x <= y

\* The tokens of rawCompletion that start with currentWord, case ignored
MatchingTokens(tokens, p) == {i \in 1..Len(tokens) : MatchEnds(tokens[i], p, 0) # {}}

\* The resolution rules 0 to 4, first match wins
ResolveRules(currentWord, rawCompletion) ==
  LET tokens == Split(rawCompletion)
  IN IF currentWord = <<>> THEN rawCompletion
     ELSE IF MatchEnds(rawCompletion, currentWord, 0) # {}
     THEN DropChars(rawCompletion, SetMin(MatchEnds(rawCompletion, currentWord, 0)))
     ELSE IF MatchStarts(rawCompletion, currentWord) # {}
     THEN DropChars(rawCompletion,
                    SetMin(MatchEnds(rawCompletion, currentWord,
                                     SetMin(MatchStarts(rawCompletion, currentWord)))))
     ELSE IF MatchingTokens(tokens, currentWord) # {}
     THEN LET i == SetMin(MatchingTokens(tokens, currentWord))
              rest == SubSeq(tokens, i + 1, Len(tokens))
              remainder == DropChars(tokens[i], SetMin(MatchEnds(tokens[i], currentWord, 0)))
          IN IF rest = <<>> THEN remainder ELSE remainder \o <<SP>> \o Join(rest, <<SP>>)
     ELSE rawCompletion

\* The last whitespace-delimited token of the line up to the cursor
LastToken(line) == IF Split(line) = <<>> THEN <<>> ELSE Split(line)[Len(Split(line))]

\* The line's text before the position a pending response was requested at
PendingLine ==
  LET s == Chars(doc)
      cursor_pos == Head(uiQueue).cursor_pos
  IN SubSeq(s, OffsetOf(s, <<cursor_pos[1], 0>>) + 1, OffsetOf(s, cursor_pos))

\* C22: for every current word and completion, _trim_completion_overlap
\* returns what the first matching of the rules 0 to 4 gives, matching
\* without regard to case and returning the completion's own characters.
C22_ResolveFollowsRules ==
  (uiQueue # <<>> /\ Head(uiQueue).kind = "show") =>
    TrimCompletionOverlap(LastToken(PendingLine), Strip(Head(uiQueue).completion))
      = ResolveRules(LastToken(PendingLine), Strip(Head(uiQueue).completion))

\* The resolver's output for the response at the head of the queue
PendingSuffix ==
  TrimCompletionOverlap(LastToken(PendingLine), Strip(Head(uiQueue).completion))

\* The document without its ghost text
PlainText(d) == Chars(SelectSeq(d, LAMBDA cell : ~cell.g))

\* C23: when a completion is delivered and the resolver's output for it is
\* empty, no ActiveSuggestion is created and no overlay text is inserted:
\* afterwards no suggestion is recorded and the document has no text that it
\* did not have before.
C23_EmptySuffixShowsNothing ==
  [][(Delivery /\ Head(uiQueue).kind = "show" /\ PendingSuffix = <<>>) =>
       (/\ current_completion' \in {<<>>, current_completion}
        /\ ghost_text_start_pos' \in {NoPos, ghost_text_start_pos}
        /\ GhostOffsets' \subseteq GhostOffsets
        /\ PlainText(doc') = PlainText(doc)
        /\ Len(doc') <= Len(doc))]_vars

\* C23 witness: a response whose resolved suffix was empty has been
\* delivered at the cursor's position and no suggestion is recorded
C23_EmptySuffixDelivered ==
  /\ uiQueue = <<>>
  /\ last_cb.outcome = "empty"
  /\ last_cb.trig = 2
  /\ current_completion = <<>>
  /\ ghost_text_start_pos = NoPos
  /\ GhostOffsets = {}

\* C24: when the configuration cannot be read or holds no credential or the
\* placeholder, no engine exists and the error was shown to the user; no
\* trigger is ever scheduled or admitted, no background task is started, the
\* provider is never called and no suggestion is ever shown, whatever the
\* position of the "Enabled" switch.
C24_NoEngineNoPipeline ==
  config \in Configs \ {"ok"} =>
    (/\ ~ai_engine
     /\ error_dialog # NoDialog
     /\ error_dialog = ConfigError(config)
     /\ timers = <<>>
     /\ \A i \in 1..Len(trig_log) : ~trig_log[i].admitted /\ ~trig_log[i].started
     /\ \A t \in Threads : thr[t].pc = "idle"
     /\ provider_called = {}
     /\ uiQueue = <<>>
     /\ ~SuggestionLive
     /\ GhostOffsets = {})

\* C24 witness: the credential is the placeholder, the user has switched
\* completion on and pressed Control-space
C24_TriggeredWithoutEngine ==
  /\ config = "placeholder_api_key"
  /\ ai_enabled
  /\ doc = <<>>
  /\ trig_log # <<>>

\* Thread t is back from get_completion and reads get_last_chat_info()
ReadsChatInfo(t) == thr[t].pc = "ret" /\ thr'[t].pc = "idle"

\* The prompt get_completion built for the call of thread t
OwnPrompt(t) == BuildCompletionPrompt(thr[t].before, thr[t].line, thr[t].after)

\* C25: what get_last_chat_info returns to a caller just back from
\* get_completion belongs to that call: after a call that reached the
\* provider, the prompt built for it and its response text (the completion
\* it returned, 'No completion received' or 'ERROR: ...'); after a call that
\* was debounced or served from the cache, (None, None).
C25_ChatInfoOfSameCall ==
  [][\A t \in Threads :
       ReadsChatInfo(t) =>
         IF thr[t].debounced \/ thr[t].hit
         THEN last_request_prompt = None /\ last_response = None
         ELSE /\ last_request_prompt = OwnPrompt(t)
              /\ IF thr[t].result # None
                 THEN last_response = thr[t].result
                 ELSE last_response \in {NoCompletionReceived, ErrorResponse}]_vars

\* C26: a background task is started only by a trigger that the controller's
\* limiter admitted (at least UiDebounceMs after the last admitted trigger),
\* and that trigger's time is recorded at once; the task goes on to the cache
\* lookup and the provider only if the engine's limiter admits it as well (at
\* least DelayMs after the engine's last admitted call); a task the engine's
\* limiter suppresses looks nothing up, calls nothing and leaves the
\* controller's recorded trigger time in place.
C26_LimitersCompound ==
  [][\A t \in Threads :
       /\ (thr[t].pc = "idle" /\ thr'[t].pc # "idle") =>
            (/\ TriggerStep
             /\ thr'[t].pc = "start"
             /\ thr'[t].trig = Len(trig_log')
             /\ trig_log'[Len(trig_log')].admitted
             /\ now - last_completion_request >= UiDebounceMs
             /\ last_completion_request' = now)
       /\ (thr[t].pc # "deb_set" /\ thr'[t].pc = "deb_set") =>
            (/\ thr[t].pc = "deb_check"
             /\ thr[t].current_time - last_request_time >= DelayMs)
       /\ (thr[t].pc # thr'[t].pc /\ thr'[t].pc \in {"hit", "api"}) =>
            (/\ thr[t].pc = "deb_set"
             /\ trig_log[thr[t].trig].admitted)
       /\ (thr[t].pc = "deb_check" /\ thr'[t].pc # "deb_check"
             /\ thr[t].current_time - last_request_time < DelayMs) =>
            (/\ thr'[t].pc = "ret"
             /\ thr'[t].result = None
             /\ UNCHANGED <<completion_cache, provider_called, last_request_time,
                            last_completion_request>>
             /\ last_completion_request >= trig_log[thr[t].trig].time)]_vars

\* C26 witness: the controller's limiter admitted a trigger and recorded its
\* time, and the engine's limiter then suppressed the request
C26_AdmittedThenSuppressed ==
  \E t \in Threads :
    /\ thr[t].pc = "ret"
    /\ thr[t].debounced
    /\ trig_log[thr[t].trig].admitted
    /\ trig_log[thr[t].trig].started
    /\ last_completion_request = trig_log[thr[t].trig].time
    /\ thr[t].trig \notin provider_called

\* A response is delivered at the cursor position of its request and a
\* suffix of it is shown
FreshSuffixShown ==
  /\ Delivery
  /\ Head(uiQueue).kind = "show"
  /\ IndexOf(Chars(doc), insert) = Head(uiQueue).cursor_pos
  /\ last_cb'.outcome = "shown"

\* C27: when a response that is not stale resolves to a non-empty suffix
\* while an earlier suggestion is showing, the earlier overlay is removed,
\* the new suffix is the only ghost text of the document and the recorded
\* suggestion, anchored at the request's cursor position, and the cursor is
\* at that anchor, before the overlay.
C27_NewSuggestionSupersedes ==
  [][(FreshSuffixShown /\ SuggestionLive /\ GhostOffsets # {}) =>
       LET start == OffsetOf(Chars(doc'), Head(uiQueue).cursor_pos)
       IN /\ ghost_text_start_pos' = Head(uiQueue).cursor_pos
          /\ current_completion' # <<>>
          /\ GhostOffsets' = (start + 1)..(start + Len(current_completion'))
          /\ SubSeq(Chars(doc'), start + 1, start + Len(current_completion'))
               = current_completion'
          /\ insert' = start
          /\ PlainText(doc') = PlainText(doc)]_vars

\* C28: a response delivered at the cursor position of its request whose
\* resolved suffix is empty leaves a showing suggestion in place: the
\* document, the recorded suggestion and its anchor do not change.
C28_EmptySuffixKeepsSuggestion ==
  [][(/\ Delivery
      /\ Head(uiQueue).kind = "show"
      /\ IndexOf(Chars(doc), insert) = Head(uiQueue).cursor_pos
      /\ PendingSuffix = <<>>
      /\ SuggestionLive)
     => UNCHANGED <<doc, current_completion, ghost_text_start_pos>>]_vars

\* The non-blank ones among the lines lo..hi of s, joined by newlines
NonBlankWindow(s, lo, hi) ==
  LET window == [i \in 1..Max(0, hi - lo + 1) |-> LineText(s, lo + i - 1)]
  IN Join(SelectSeq(window, LAMBDA l : \E i \in 1..Len(l) : ~IsSpace(l[i])), <<NL>>)

\* The line the cursor is on
CursorLine == IndexOf(Chars(doc), insert)[1]

\* C29: for every document and cursor line L, request_ai_completion hands
\* its task as `before` the non-blank lines among the lines L-10..L-1, top to
\* bottom and joined by newlines, and as `after` the non-blank lines among
\* the lines L+1..L+5, both clipped at the document's first and last line;
\* the extraction is a function of the document and the cursor, and it
\* changes neither of them nor the suggestion.
C29_ContextWindow ==
  [][TriggerStep =>
       /\ UNCHANGED <<doc, insert, current_completion, ghost_text_start_pos>>
       /\ \A t \in Threads :
            (thr[t].pc = "idle" /\ thr'[t].pc = "start") =>
              /\ thr'[t].before =
                   NonBlankWindow(Chars(doc), Max(1, CursorLine - ContextLinesBefore),
                                  CursorLine - 1)
              /\ thr'[t].after =
                   NonBlankWindow(Chars(doc), CursorLine + 1,
                                  Min(NumLines(Chars(doc)), CursorLine + ContextLinesAfter))]_vars

\* C29 witness: a task was started with the cursor more than 10 lines below
\* the document's start and more than 5 lines above its end, with a blank
\* line left out of `before`
C29_WindowClippedAndFiltered ==
  \E t \in Threads :
    /\ thr[t].pc = "start"
    /\ CursorLine > ContextLinesBefore + 1
    /\ NumLines(Chars(doc)) > CursorLine + ContextLinesAfter
    /\ NumLines(thr[t].before) < ContextLinesBefore
    /\ NumLines(thr[t].after) = ContextLinesAfter

\* The three slices the fingerprint of thread t's window is made of
KeySlices(t) ==
  <<LastChars(thr[t].before, KeyBeforeChars), thr[t].line,
    FirstChars(thr[t].after, KeyAfterChars)>>

\* A text without its spaces and newlines
Squeeze(s) == SelectSeq(s, LAMBDA c : c # SP /\ c # NL)

\* Thread t has computed the key of its window
KeyComputed(t) == thr[t].pc \in {"hit", "api", "evict_check", "evict_pick", "evict_del"}

\* C30 as stated: two windows whose slices agree one by one up to spaces and
\* newlines get the same fingerprint, and two windows of which a slice
\* differs in a character other than a space or newline never do.
C30_CollisionsOnlyOutsideSlices ==
  \A t, u \in Threads :
    (KeyComputed(t) /\ KeyComputed(u)) =>
      ((\A k \in 1..3 : Squeeze(KeySlices(t)[k]) = Squeeze(KeySlices(u)[k]))
         <=> thr[t].cache_key = thr[u].cache_key)

\* C30, amended: the fingerprint is the text of the three slices, one after
\* the other, without spaces and newlines; two windows get the same
\* fingerprint exactly when these texts are equal, so windows whose slices
\* agree one by one up to spaces and newlines always do.
C30_FingerprintOfJoinedSlices ==
  \A t, u \in Threads :
    (KeyComputed(t) /\ KeyComputed(u)) =>
      /\ thr[t].cache_key
           = Squeeze(KeySlices(t)[1] \o KeySlices(t)[2] \o KeySlices(t)[3])
      /\ (\A k \in 1..3 : Squeeze(KeySlices(t)[k]) = Squeeze(KeySlices(u)[k]))
           => thr[t].cache_key = thr[u].cache_key

\* C30 witness: two windows that differ in white space and beyond the
\* truncation bounds, and agree on the slices otherwise, have the same
\* fingerprint
C30_SameKeyForEquivalentWindows ==
  /\ \A t \in Threads : KeyComputed(t)
  /\ thr[1].before # thr[2].before
  /\ Len(thr[1].before) > KeyBeforeChars
  /\ thr[1].line # thr[2].line
  /\ thr[1].after # thr[2].after
  /\ \A k \in 1..3 : Squeeze(KeySlices(1)[k]) = Squeeze(KeySlices(2)[k])
  /\ thr[1].cache_key = thr[2].cache_key

\* C31: in every reachable state the two fields of the suggestion state are
\* set or cleared together: ghost_text_start_pos is absent exactly when
\* current_completion is empty, whatever show, accept, dismiss, key, click
\* and file operations came before.
C31_FieldsPaired ==
  (ghost_text_start_pos = NoPos) <=> (current_completion = <<>>)

\* A suggestion was shown and the state has been cleared again since
C31_ShownThenCleared ==
  /\ last_cb.shown # 0
  /\ events = MaxEvents
  /\ ghost_text_start_pos = NoPos
  /\ current_completion = <<>>

\* C32: whenever a suggestion is live, the span of the document that starts
\* at the remembered anchor and has the length of the remembered text holds
\* exactly that text - in particular right after a response is applied, also
\* when its request was made with the cursor behind an existing overlay or
\* one character before the end of the line.
C32_SpanHoldsSuggestion ==
  SuggestionLive => SpanAtAnchor = current_completion

\* A call of request_ai_completion passed the rate limit and was rejected by
\* the check of the line's content or of the cursor's position
LineRejectedStep ==
  /\ TriggerStep
  /\ trig_log'[Len(trig_log')].admitted
  /\ ~trig_log'[Len(trig_log')].started

\* C33: a trigger rejected by the line-content or cursor-position check does
\* not consume the rate-limit window: it leaves the controller's timestamp
\* unchanged, so that a valid trigger less than 500 ms later is still
\* admitted.
C33_RejectedKeepsWindow ==
  [][LineRejectedStep => last_completion_request' = last_completion_request]_vars

\* The burst is over with the cursor at the end of a non-blank line, the
\* engine constructed and completions enabled
BurstOver ==
  /\ events = MaxBurstKeys
  /\ ai_engine /\ ai_enabled
  /\ TriggerAdmitsLineStrict(Ed)

\* request_ai_completion has started a thread with the cursor position the
\* cursor has now
IssuedAtCursor ==
  \E i \in 1..Len(trig_log) :
    /\ trig_log[i].started
    /\ trig_log[i].cursor_pos = IndexOf(Chars(doc), insert)

\* C34: bursts of edits are coalesced without losing the final state: once a
\* burst of keystrokes has ended with the cursor at the line end, a
\* non-blank prefix and a configured provider, a completion request whose
\* captured cursor position is the final cursor position is eventually
\* issued.
C34_FinalStateRequested == BurstOver ~> IssuedAtCursor

\* The status texts that close a request: the three outcomes
OutcomeStatuses ==
  {"Completion ready - Press Tab to accept, or keep typing to dismiss",
   "No completion available",
   "Completion error: KeyError"}

\* C35: every issued request is eventually closed out when the provider call
\* returns: once the status is 'Requesting AI completion...', it is
\* eventually replaced by an outcome status (completion ready, no completion
\* available or completion error), also when the response is stale or the
\* resolved suffix is empty.
C35_RequestClosedOut ==
  (status = "Requesting AI completion...") ~> (status \in OutcomeStatuses)

\* A resolver made only of rule 0, the substring rule and the fallback
ResolveWithoutTokenRule(currentWord, rawCompletion) ==
  IF currentWord = <<>> THEN rawCompletion
  ELSE IF Find(LowerStr(rawCompletion), LowerStr(currentWord)) >= 0
       THEN DropChars(rawCompletion,
                      Find(LowerStr(rawCompletion), LowerStr(currentWord))
                        + Len(currentWord))
  ELSE rawCompletion

IsSuffix(s, t) == Len(s) <= Len(t) /\ SubSeq(t, Len(t) - Len(s) + 1, Len(t)) = s

\* C36: the token-prefix rule never decides the resolver's output: for every
\* current word (it has no white space) and every completion, the resolver
\* returns what a resolver made only of rule 0, the substring rule and the
\* fallback returns, and so the suggestion shown is always a suffix of the
\* completion, with its white space as it was.
C36_TokenRuleNeverDecides ==
  [][(/\ Delivery
      /\ Head(uiQueue).kind = "show"
      /\ IndexOf(Chars(doc), insert) = Head(uiQueue).cursor_pos) =>
       (/\ PendingSuffix = ResolveWithoutTokenRule(LastToken(PendingLine),
                                                   Strip(Head(uiQueue).completion))
        /\ current_completion' = PendingSuffix
        /\ IsSuffix(current_completion', Strip(Head(uiQueue).completion)))]_vars

\* C36 witness: for the word 'a' the completion 'ba ab', whose second token
\* starts with the word, was resolved by the substring rule to ' ab' and is
\* showing
C36_ShownFromSubstringRule ==
  /\ uiQueue = <<>>
  /\ last_cb.outcome = "shown"
  /\ PlainText(doc) = <<"a">>
  /\ current_completion = <<SP, "a", "b">>

====
